---------------------------- MODULE Spec2Model ----------------------------
(***************************************************************************)
(* A model of scripts/law_notifier.py: the change-detection pass of        *)
(* run_web and the history ledger merge (merge_history_items).             *)
(*                                                                         *)
(* Text is modelled as Python models it: a str is the sequence of its      *)
(* Unicode code points, so that stripping, digit extraction, slicing,      *)
(* joining, ISO parsing and lexicographic comparison are computed, not     *)
(* assumed.  A dict is a function from field names to values; a missing    *)
(* key (or a JSON null, which every reader in the code treats the same     *)
(* way through "or ''" / .get defaults) is a field outside the DOMAIN.     *)
(***************************************************************************)
EXTENDS Integers, Sequences, FiniteSets, TLC

VARIABLES
    clock,          \* wall clock, in milliseconds after CLOCK_BASE
    mpc,            \* merge harness: which calls of merge_history_items were made
    existing_items, \* merge harness: argument existing_items
    incoming_items, \* merge harness: argument incoming_items
    cutoff_arg,     \* merge harness: argument cutoff_yyyymmdd
    out1,           \* merge_history_items(existing, incoming, cutoff)
    out2,           \* merge_history_items(existing, out1, cutoff)
    outRev,         \* merge_history_items(reversed existing, reversed incoming, cutoff)
    outLater,       \* merge_history_items(existing, incoming, cutoff), called later
    CHANGELOG_START_DATE,   \* the environment variable read at line 35
    state_file,     \* data/state.json
    history_file,   \* data/history.json
    changelog_file, \* public/changelog.json, written also as changes.json
    updates_json,   \* public/updates.json
    events,         \* last run: the records classified, in order
    state_before,   \* last run: the state it loaded
    ledger_before,  \* last run: the ledger items it loaded
    run_cutoff,     \* last run: its cutoff
    seeded_before,  \* last run: the seeded_from it loaded
    pc,             \* stepwise run: the position of the process in run_web
    run_mem,        \* stepwise run: what the process computed and is about to write
    state_tmp,      \* data/state.tmp
    outcome,        \* stepwise run: how the last process ended
    dpc,            \* date harness: whether normalize_date was called
    date_arg,       \* date harness: the argument of normalize_date
    date_out        \* date harness: what normalize_date returned

mvars == <<mpc, existing_items, incoming_items, cutoff_arg, out1, out2, outRev, outLater>>

svars == <<pc, run_mem, state_tmp, outcome>>

dvars == <<dpc, date_arg, date_out>>

---------------------------------------------------------------------------
(* Python str primitives on code-point sequences *)

MinOf(S) == CHOOSE x \in S : \A y \in S : x <= y
MaxOf(S) == CHOOSE x \in S : \A y \in S : x >= y

\* str.isdigit() on the ASCII digits "0".."9"
IsDigit(ch) == ch >= 48 /\ ch <= 57

\* the characters str.strip() removes: tab, LF, VT, FF, CR, FS..US, space
IsSpace(ch) == ch \in {9, 10, 11, 12, 13, 28, 29, 30, 31, 32}

RECURSIVE lstrip(_)
lstrip(s) == IF s # <<>> /\ IsSpace(Head(s)) THEN lstrip(Tail(s)) ELSE s

RECURSIVE rstrip(_)
rstrip(s) ==
    IF s # <<>> /\ IsSpace(s[Len(s)]) THEN rstrip(SubSeq(s, 1, Len(s) - 1)) ELSE s

\* str.strip()
strip(s) == rstrip(lstrip(s))

\* x or y, for two strings and for two integers
StrOr(x, y) == IF x # <<>> THEN x ELSE y
IntOr(x, y) == IF x # 0 THEN x ELSE y

\* int(digits) for a non-empty string of ASCII digits
RECURSIVE ToInt(_)
ToInt(s) ==
    IF s = <<>> THEN 0
    ELSE ToInt(SubSeq(s, 1, Len(s) - 1)) * 10 + (s[Len(s)] - 48)

\* str(n) for a natural number n
RECURSIVE Dec(_)
Dec(n) == IF n < 10 THEN <<48 + n>> ELSE Dec(n \div 10) \o <<48 + (n % 10)>>

\* f"{n:0{w}d}"
RECURSIVE Pad(_, _)
Pad(n, w) == IF Len(Dec(n)) >= w THEN Dec(n) ELSE <<48>> \o Pad(n, w - 1)

\* a < b for Python str (lexicographic by code point)
RECURSIVE StrLessFrom(_, _, _)
StrLessFrom(a, b, i) ==
    IF i > Len(a) \/ i > Len(b) THEN Len(a) < Len(b)
    ELSE IF a[i] # b[i] THEN a[i] < b[i]
    ELSE StrLessFrom(a, b, i + 1)

StrLess(a, b) == StrLessFrom(a, b, 1)

\* sep.join(parts)
RECURSIVE Join(_, _)
Join(sep, parts) ==
    IF parts = <<>> THEN <<>>
    ELSE IF Len(parts) = 1 THEN parts[1]
    ELSE parts[1] \o sep \o Join(sep, Tail(parts))

\* s.startswith(p)
StartsWith(s, p) == Len(p) <= Len(s) /\ SubSeq(s, 1, Len(p)) = p

\* dict.get(f, default)
Get(item, f, default) == IF f \in DOMAIN item THEN item[f] ELSE default

\* item[f] = v
SetField(item, f, v) ==
    [x \in (DOMAIN item) \cup {f} |-> IF x = f THEN v ELSE item[x]]

Reverse(s) == [i \in 1..Len(s) |-> s[Len(s) + 1 - i]]

---------------------------------------------------------------------------
(* Literals of the source *)

BAR        == <<124>>                \* "|"
BARBAR     == <<124, 124>>           \* "||"
COLONCOLON == <<58, 58>>             \* "::"
HYPHEN     == <<45>>                 \* "-"
MIDNIGHT_Z == <<84, 48, 48, 58, 48, 48, 58, 48, 48, 90>>   \* "T00:00:00Z"
PLUS_ZERO  == <<43, 48, 48, 58, 48, 48>>                   \* "+00:00"
KIND_LAW    == <<48277, 47161>>      \* U+BC95 U+B839, "beomnyeong" (statute)
KIND_ADMRUL == <<44256, 49884>>      \* U+ACE0 U+C2DC, "gosi" (notice)
KIND_BILL   == <<51032, 50504>>      \* U+C758 U+C548, "uian" (bill)
KO_NEW == <<49888, 44508>>           \* U+C2E0 U+ADDC, "singyu"
KO_MOD == <<48320, 44221>>           \* U+BCC0 U+ACBD, "byeongyeong"
KO_OK  == <<50976, 51648>>           \* U+C720 U+C9C0, "yuji"

\* STATUS_KO.get(status, default)
STATUS_KO(status, default) ==
    CASE status = "NEW" -> KO_NEW
      [] status = "MOD" -> KO_MOD
      [] status = "OK"  -> KO_OK
      [] OTHER          -> default

---------------------------------------------------------------------------
(* The wall clock *)

\* The instant the modelled clock starts at; readings are CLOCK_BASE + clock ms.
CLOCK_BASE == <<50, 48, 50, 54, 45, 49, 49, 45, 48, 52, 84, 48, 48, 58, 48, 48, 58, 48, 48, 46>>  \* "2026-11-04T00:00:00."

\* now_utc_iso_ms() when the clock reads t (t < 1000)
now_utc_iso_ms(t) == CLOCK_BASE \o Pad(t, 3) \o <<90>>

---------------------------------------------------------------------------
(* Date and timestamp helpers *)

normalize_date(text) ==
    LET digits == SelectSeq(text, IsDigit)
    IN  SubSeq(digits, 1, IF Len(digits) < 8 THEN Len(digits) ELSE 8)

date_sort_value(text) ==
    LET digits == normalize_date(text)
    IN  IF digits # <<>> THEN ToInt(digits) ELSE 0

safe_int_yyyymmdd(text) ==
    LET digits == normalize_date(text)
    IN  IF digits # <<>> THEN ToInt(digits) ELSE 0

\* nowIso: what now_utc_iso_ms() returns if this call reads the clock
to_iso_utc_from_yyyymmdd(yyyymmdd, nowIso) ==
    LET digits == normalize_date(yyyymmdd)
    IN  IF Len(digits) # 8 THEN nowIso
        ELSE SubSeq(digits, 1, 4) \o HYPHEN \o SubSeq(digits, 5, 6) \o HYPHEN
             \o SubSeq(digits, 7, 8) \o MIDNIGHT_Z

yyyymmdd_from_iso(iso) ==
    IF iso = <<>> THEN <<>>
    ELSE LET digits == normalize_date(iso)
         IN  SubSeq(digits, 1, IF Len(digits) < 8 THEN Len(digits) ELSE 8)

normalize_detected_at_utc(item, fallback_iso, nowIso) ==
    LET iso == strip(Get(item, "detected_at_utc", <<>>))
        date_text == normalize_date(Get(item, "date", <<>>))
    IN  IF iso # <<>> THEN iso
        ELSE IF date_text # <<>> THEN to_iso_utc_from_yyyymmdd(date_text, nowIso)
        ELSE fallback_iso

history_item_key(item) ==
    Join(BARBAR, << strip(Get(item, "kind", <<>>)),
                    strip(Get(item, "id", <<>>)),
                    normalize_date(Get(item, "date", <<>>)),
                    strip(Get(item, "title", <<>>)) >>)

---------------------------------------------------------------------------
(* iso_sort_value: datetime.fromisoformat(...).timestamp()                 *)
(*                                                                         *)
(* The value of a timestamp is kept exact as <<days since 1970-01-01,      *)
(* second of the day, microsecond>> in UTC and compared lexicographically, *)
(* which is the order of the float that timestamp() returns.  The parser   *)
(* accepts the shapes every CPython from 3.7 on accepts alike:             *)
(* YYYY-MM-DD, optionally followed by one separator character and          *)
(* HH[:MM[:SS[.fff[fff]]]], optionally followed by +HH:MM[:SS] or          *)
(* -HH:MM[:SS]; any other text raises ValueError there and is malformed    *)
(* here.  A timestamp without an offset is read in the local zone of the   *)
(* host, taken to be UTC.                                                  *)

AllDigits(s, i, n) == \A k \in i..(i + n - 1) : IsDigit(s[k])

Num(s, i, n) == ToInt(SubSeq(s, i, i + n - 1))

IsLeap(y) == (y % 4 = 0 /\ y % 100 # 0) \/ y % 400 = 0

DaysInMonth(y, m) ==
    IF m = 2 THEN (IF IsLeap(y) THEN 29 ELSE 28)
    ELSE IF m \in {4, 6, 9, 11} THEN 30 ELSE 31

\* date(y, m, d).toordinal() - date(1970, 1, 1).toordinal()
DaysFromCivil(y, m, d) ==
    LET yy  == IF m <= 2 THEN y - 1 ELSE y
        era == yy \div 400
        yoe == yy - era * 400
        mp  == (m + 9) % 12
        doy == (153 * mp + 2) \div 5 + d - 1
        doe == yoe * 365 + yoe \div 4 - yoe \div 100 + doy
    IN  era * 146097 + doe - 719468

\* s.replace("Z", "+00:00")
RECURSIVE ReplaceZ(_)
ReplaceZ(s) ==
    IF s = <<>> THEN <<>>
    ELSE (IF Head(s) = 90 THEN PLUS_ZERO ELSE <<Head(s)>>) \o ReplaceZ(Tail(s))

\* HH[:MM[:SS[.fff[fff]]]] : [ok, sec (second of the day), usec]
ParseClock(c) ==
    LET n  == Len(c)
        ok == /\ n \in {2, 5, 8, 12, 15}
              /\ AllDigits(c, 1, 2)
              /\ n >= 5  => (c[3] = 58 /\ AllDigits(c, 4, 2))
              /\ n >= 8  => (c[6] = 58 /\ AllDigits(c, 7, 2))
              /\ n >= 12 => (c[9] = 46 /\ AllDigits(c, 10, n - 9))
        mm == IF n >= 5 THEN Num(c, 4, 2) ELSE 0
        ss == IF n >= 8 THEN Num(c, 7, 2) ELSE 0
        us == IF n = 12 THEN Num(c, 10, 3) * 1000
              ELSE IF n = 15 THEN Num(c, 10, 6) ELSE 0
    IN  IF ok /\ Num(c, 1, 2) < 24 /\ mm < 60 /\ ss < 60
        THEN [ok |-> TRUE, sec |-> Num(c, 1, 2) * 3600 + mm * 60 + ss, usec |-> us]
        ELSE [ok |-> FALSE, sec |-> 0, usec |-> 0]

\* where the UTC offset starts in the text after the separator (0: no offset)
SignPos(t) ==
    LET signs == {i \in 1..Len(t) : t[i] \in {43, 45}}
    IN  IF signs = {} THEN 0 ELSE MinOf(signs)

\* clk: the clock part; tz: the offset's HH:MM[:SS]; p: SignPos(t)
TimeOf(t, p, clk, tz) ==
    [ok   |-> clk.ok /\ (p = 0 \/ (Len(t) - p \in {5, 8} /\ tz.ok)),
     sec  |-> clk.sec,
     usec |-> clk.usec,
     off  |-> IF p = 0 THEN 0 ELSE IF t[p] = 45 THEN 0 - tz.sec ELSE tz.sec]

ParseTimeAt(t, p) ==
    TimeOf(t, p,
           ParseClock(IF p = 0 THEN t ELSE SubSeq(t, 1, p - 1)),
           ParseClock(IF p = 0 THEN <<>> ELSE SubSeq(t, p + 1, Len(t))))

ParseTime(t) == ParseTimeAt(t, SignPos(t))

\* YYYY-MM-DD : [ok, days since 1970-01-01]
ParseDate(s) ==
    LET shape == /\ Len(s) >= 10
                 /\ AllDigits(s, 1, 4) /\ s[5] = 45
                 /\ AllDigits(s, 6, 2) /\ s[8] = 45
                 /\ AllDigits(s, 9, 2)
        y == Num(s, 1, 4)
        m == Num(s, 6, 2)
        d == Num(s, 9, 2)
    IN  IF shape /\ y >= 1 /\ m >= 1 /\ m <= 12 /\ d >= 1 /\ d <= DaysInMonth(y, m)
        THEN [ok |-> TRUE, days |-> DaysFromCivil(y, m, d)]
        ELSE [ok |-> FALSE, days |-> 0]

IsoZero == <<0, 0, 0>>

\* the instant of local date dt at local time tm
IsoValue(dt, tm) ==
    IF dt.ok /\ tm.ok
    THEN << dt.days + ((tm.sec - tm.off) \div 86400), (tm.sec - tm.off) % 86400, tm.usec >>
    ELSE IsoZero

\* datetime.fromisoformat(s).timestamp(), or 0.0 where it raises
ParseIso(s) ==
    IsoValue(ParseDate(s),
             IF Len(s) > 10 THEN ParseTime(SubSeq(s, 12, Len(s)))
             ELSE [ok |-> TRUE, sec |-> 0, usec |-> 0, off |-> 0])

\* ParseIso(s), or 0.0 for the empty text
ParseIsoOrZero(s) == IF s = <<>> THEN IsoZero ELSE ParseIso(ReplaceZ(s))

iso_sort_value(iso) == ParseIsoOrZero(strip(iso))

\* a < b on the values of iso_sort_value
IsoLess(a, b) ==
    \/ a[1] < b[1]
    \/ a[1] = b[1] /\ a[2] < b[2]
    \/ a[1] = b[1] /\ a[2] = b[2] /\ a[3] < b[3]

---------------------------------------------------------------------------
(* list.sort(key=...): Python's sort is stable *)

\* the first place of xs whose element is greater than x (Len(xs) + 1: none)
FirstGreater(xs, x, Less(_, _)) ==
    LET later == {i \in 1..Len(xs) : Less(x, xs[i])}
    IN  IF later = {} THEN Len(xs) + 1 ELSE MinOf(later)

InsertAt(xs, x, p) == SubSeq(xs, 1, p - 1) \o <<x>> \o SubSeq(xs, p, Len(xs))

\* xs is sorted; x goes after every element that is not greater than it
InsertStable(xs, x, Less(_, _)) == InsertAt(xs, x, FirstGreater(xs, x, Less))

\* insertion sort: sorted[n] is the first n elements, sorted
StableSort(xs, Less(_, _)) ==
    LET sorted[n \in 0..Len(xs)] ==
            IF n = 0 THEN <<>> ELSE InsertStable(sorted[n - 1], xs[n], Less)
    IN  sorted[Len(xs)]

---------------------------------------------------------------------------
(* merge_history_items *)

\* An element of a JSON list that is not an object is the record [nondict |-> TRUE].
IsDict(raw) == "nondict" \notin DOMAIN raw

\* dict with insertion order: a sequence of [k |-> key, v |-> value]
DictHas(d, key) == \E i \in 1..Len(d) : d[i].k = key

DictGet(d, key) == d[CHOOSE i \in 1..Len(d) : d[i].k = key].v

\* d[key] = value: a new key goes last, a known key keeps its place
DictPut(d, key, value) ==
    IF DictHas(d, key)
    THEN [i \in 1..Len(d) |-> IF d[i].k = key THEN [k |-> key, v |-> value] ELSE d[i]]
    ELSE Append(d, [k |-> key, v |-> value])

DictValues(d) == [i \in 1..Len(d) |-> d[i].v]

\* line 271
merge_set_date(raw) ==
    SetField(raw, "date", normalize_date(Get(raw, "date", <<>>)))

\* line 272; nowIso is what now_utc_iso_ms() returns there
merge_set_detected(item, nowIso) ==
    SetField(item, "detected_at_utc", normalize_detected_at_utc(item, nowIso, nowIso))

\* lines 273-274
merge_set_key(item) ==
    IF Get(item, "history_key", <<>>) = <<>>
    THEN SetField(item, "history_key", history_item_key(item)) ELSE item

\* lines 275-276
merge_set_status_ko(item) ==
    IF Get(item, "status_ko", <<>>) = <<>>
    THEN SetField(item, "status_ko", STATUS_KO(Get(item, "status", "MOD"), KO_MOD))
    ELSE item

\* lines 270-276: the copy of raw with date, detected_at_utc, history_key and
\* status_ko filled in
merge_normalize(raw, nowIso) ==
    merge_set_status_ko(merge_set_key(merge_set_detected(merge_set_date(raw), nowIso)))

\* line 278
merge_date_num(item) ==
    IntOr(safe_int_yyyymmdd(Get(item, "date", <<>>)),
          safe_int_yyyymmdd(yyyymmdd_from_iso(item["detected_at_utc"])))

\* the cutoff day itself is dropped too
merge_before_cutoff_inclusive(date_num, cutoff) == date_num # 0 /\ date_num <= cutoff

\* line 279: the entry is dropped
merge_before_cutoff(date_num, cutoff) == date_num # 0 /\ date_num < cutoff

\* line 282
merge_key(item) ==
    StrOr(strip(Get(item, "history_key", <<>>)), history_item_key(item))

\* line 289: the later candidate replaces the kept one
merge_replaces(item, prev) ==
    ~IsoLess(iso_sort_value(Get(item, "detected_at_utc", <<>>)),
             iso_sort_value(Get(prev, "detected_at_utc", <<>>)))

\* lines 283-290
merge_store(merged, key, item) ==
    IF ~DictHas(merged, key) THEN DictPut(merged, key, item)
    ELSE IF merge_replaces(item, DictGet(merged, key)) THEN DictPut(merged, key, item)
    ELSE merged

\* lines 278-290, for the normalized item
merge_keep(merged, item, cutoff) ==
    IF merge_before_cutoff(merge_date_num(item), cutoff) THEN merged
    ELSE merge_store(merged, merge_key(item), item)

\* one pass of the loop at lines 267-290
merge_step(merged, raw, nowIso, cutoff) ==
    IF ~IsDict(raw) THEN merged
    ELSE merge_keep(merged, merge_normalize(raw, nowIso), cutoff)

RECURSIVE merge_loop(_, _, _, _)
merge_loop(raws, nows, cutoff, n) ==
    IF n = 0 THEN <<>>
    ELSE merge_step(merge_loop(raws, nows, cutoff, n - 1), raws[n], nows[n], cutoff)

\* lines 294-299: the sort key of an entry, negated numbers kept positive
merge_sort_key(item) ==
    << iso_sort_value(Get(item, "detected_at_utc", <<>>)),
       date_sort_value(Get(item, "date", <<>>)),
       Get(item, "kind", <<>>),
       Get(item, "title", <<>>) >>

\* the date not negated: ka < kb for the tuples (-ka[1], ka[2], ka[3], ka[4])
merge_key_less_date_ascending(ka, kb) ==
    \/ IsoLess(kb[1], ka[1])
    \/ ka[1] = kb[1] /\ ka[2] < kb[2]
    \/ ka[1] = kb[1] /\ ka[2] = kb[2] /\ StrLess(ka[3], kb[3])
    \/ ka[1] = kb[1] /\ ka[2] = kb[2] /\ ka[3] = kb[3] /\ StrLess(ka[4], kb[4])

\* ka < kb for the tuples (-ka[1], -ka[2], ka[3], ka[4])
merge_key_less(ka, kb) ==
    \/ IsoLess(kb[1], ka[1])
    \/ ka[1] = kb[1] /\ ka[2] > kb[2]
    \/ ka[1] = kb[1] /\ ka[2] = kb[2] /\ StrLess(ka[3], kb[3])
    \/ ka[1] = kb[1] /\ ka[2] = kb[2] /\ ka[3] = kb[3] /\ StrLess(ka[4], kb[4])

\* list.sort(key=...): the key of each element is computed once, the elements
\* are sorted by their keys, stably
merge_keyed(out) == [i \in 1..Len(out) |-> [key |-> merge_sort_key(out[i]), item |-> out[i]]]

merge_keyed_less(a, b) == merge_key_less(a.key, b.key)

Items(keyed) == [i \in 1..Len(keyed) |-> keyed[i].item]

\* lines 292-300
merge_sort(out) == Items(StableSort(merge_keyed(out), merge_keyed_less))

\* nows[i]: what now_utc_iso_ms() returns in the loop's i-th pass
merge_history_items(existing, incoming, cutoff_yyyymmdd, nows) ==
    merge_sort(DictValues(merge_loop(existing \o incoming, nows,
                                     safe_int_yyyymmdd(cutoff_yyyymmdd),
                                     Len(existing) + Len(incoming))))

---------------------------------------------------------------------------
(* Literals of run_web and of the functions it calls *)

\* the first two of LAW_NAMES: U+B300 U+AE30 U+D658 U+ACBD U+BCF4 U+C804 U+BC95
\* ("Clean Air Conservation Act"), and the same followed by " " U+C2DC U+D589
\* U+B839 (its enforcement decree)
LAW_NAME_1 == <<45824, 44592, 54872, 44221, 48372, 51204, 48277>>
LAW_NAME_2 == <<45824, 44592, 54872, 44221, 48372, 51204, 48277, 32, 49884, 54665, 47161>>
LAW_NAMES  == <<LAW_NAME_1, LAW_NAME_2>>

\* the first two of ADMRUL_QUERIES
ADMRUL_QUERY_1 == <<54872, 44221, 49884, 54744, 183, 44160, 49324, 44592, 44288, 32, 51221,
                    46020, 44288, 47532, 32, 50868, 50689, 46321, 50640, 32, 44288, 54620,
                    32, 44508, 51221>>
ADMRUL_QUERY_2 == <<54872, 44221, 49884, 54744, 32, 44160, 49324, 44592, 44288, 32, 51221,
                    46020, 44288, 47532, 32, 50868, 50689>>
ADMRUL_QUERIES == <<ADMRUL_QUERY_1, ADMRUL_QUERY_2>>

\* (label, key) pairs; the labels are Korean field names
LAW_CHANGE_FIELDS ==
    << [label |-> <<44277, 54252, 51068, 51088>>, key |-> "ld"],
       [label |-> <<44277, 54252, 48264, 54840>>, key |-> "ln"],
       [label |-> <<51228, 44060, 51221, 44396, 48516>>, key |-> "reform_type"] >>
ADMRUL_CHANGE_FIELDS ==
    << [label |-> <<48156, 47161, 51068, 51088>>, key |-> "promulgation_date"],
       [label |-> <<49884, 54665, 51068, 51088>>, key |-> "enforce_date"],
       [label |-> <<48156, 47161, 48264, 54840>>, key |-> "num"] >>
BILL_CHANGE_FIELDS ==
    << [label |-> <<51032, 50504, 48264, 54840>>, key |-> "bill_no"],
       [label |-> <<52376, 47532, 44208, 44284>>, key |-> "proc_result"],
       [label |-> <<51228, 50504, 51068>>, key |-> "propose_dt"] >>

SUMMARY_NEW  == <<49888, 44508, 32, 44048, 51648>>     \* "newly detected", line 758
SUMMARY_NONE == <<48320, 44221, 32, 50630, 51020>>     \* "no change", line 766
\* "backfill accumulated since the reference day (2021-01-01)", line 343
SUMMARY_BACKFILL == <<44592, 51456, 51068, 40, 50, 48, 50, 49, 45, 48, 49, 45, 48, 49, 41, 32,
                      51060, 54980, 32, 45572, 51201, 32, 48177, 54596>>
\* "the statute API gave no answer: showing the data of the last success", line 838
NOTE_LAW == <<48277, 47161, 32, 65, 80, 73, 32, 51025, 45813, 32, 45572, 46973, 51004, 47196,
              32, 51060, 51204, 32, 49457, 44277, 32, 45936, 51060, 53552, 47484, 32, 54364,
              49884, 54633, 45768, 45796, 46>>
\* the same for the notice API, line 869
NOTE_ADMRUL == <<44256, 49884, 32, 65, 80, 73, 32, 51025, 45813, 32, 45572, 46973, 51004,
                 47196, 32, 51060, 51204, 32, 49457, 44277, 32, 45936, 51060, 53552, 47484,
                 32, 54364, 49884, 54633, 45768, 45796, 46>>
\* "https://www.law.go.kr/LSW/lsInfoP.do?lsiSeq="
URL_LAW_SEQ == <<104, 116, 116, 112, 115, 58, 47, 47, 119, 119, 119, 46, 108, 97, 119, 46,
                 103, 111, 46, 107, 114, 47, 76, 83, 87, 47, 108, 115, 73, 110, 102, 111, 80,
                 46, 100, 111, 63, 108, 115, 105, 83, 101, 113, 61>>
URL_LAW_EFYD == <<38, 101, 102, 89, 100, 61>>           \* "&efYd="
\* "https://www.law.go.kr/LSW/lsSc.do?menuId=1&query="
URL_SEARCH == <<104, 116, 116, 112, 115, 58, 47, 47, 119, 119, 119, 46, 108, 97, 119, 46,
                103, 111, 46, 107, 114, 47, 76, 83, 87, 47, 108, 115, 83, 99, 46, 100, 111,
                63, 109, 101, 110, 117, 73, 100, 61, 49, 38, 113, 117, 101, 114, 121, 61>>
\* "https://www.law.go.kr/LSW/admRulLsInfoP.do?admRulSeq="
URL_ADMRUL == <<104, 116, 116, 112, 115, 58, 47, 47, 119, 119, 119, 46, 108, 97, 119, 46,
                103, 111, 46, 107, 114, 47, 76, 83, 87, 47, 97, 100, 109, 82, 117, 108, 76,
                115, 73, 110, 102, 111, 80, 46, 100, 111, 63, 97, 100, 109, 82, 117, 108, 83,
                101, 113, 61>>
\* "https://likms.assembly.go.kr/bill/billDetail.do?billId="
URL_BILL == <<104, 116, 116, 112, 115, 58, 47, 47, 108, 105, 107, 109, 115, 46, 97, 115, 115,
              101, 109, 98, 108, 121, 46, 103, 111, 46, 107, 114, 47, 98, 105, 108, 108, 47,
              98, 105, 108, 108, 68, 101, 116, 97, 105, 108, 46, 100, 111, 63, 98, 105, 108,
              108, 73, 100, 61>>
ARROW       == <<32, 45, 62, 32>>    \* " -> "
COLON_SPACE == <<58, 32>>            \* ": "
SEMI_SPACE  == <<59, 32>>            \* "; "

\* the local time of CLOCK_BASE in KST, and the KST offset
KST_BASE   == <<50, 48, 50, 54, 45, 49, 49, 45, 48, 52, 84, 48, 57, 58, 48, 48, 58, 48, 48, 46>>
PLUS_NINE  == <<43, 48, 57, 58, 48, 48>>

\* datetime.now(KST).isoformat(timespec="milliseconds") at clock value t
now_kst_iso_ms(t) == KST_BASE \o Pad(t, 3) \o PLUS_NINE

---------------------------------------------------------------------------
(* Helpers of run_web *)

Range(s) == {s[i] : i \in 1..Len(s)}

RECURSIVE Flatten(_)
Flatten(lists) == IF lists = <<>> THEN <<>> ELSE Head(lists) \o Flatten(Tail(lists))

\* Optional[dict]: <<>> is None, <<d>> is the dict d
OptGet(d, key) == IF DictHas(d, key) THEN <<DictGet(d, key)>> ELSE <<>>

\* "not prev", for an Optional[dict]
Falsy(prev) == prev = <<>> \/ DOMAIN prev[1] = {}

RECURSIVE lstrip_bar(_)
lstrip_bar(s) == IF s # <<>> /\ Head(s) = 124 THEN lstrip_bar(Tail(s)) ELSE s

RECURSIVE rstrip_bar(_)
rstrip_bar(s) ==
    IF s # <<>> /\ s[Len(s)] = 124 THEN rstrip_bar(SubSeq(s, 1, Len(s) - 1)) ELSE s

\* s.strip("|")
strip_bar(s) == rstrip_bar(lstrip_bar(s))

\* U+318D becomes U+00B7; blanks and tabs go
normalize_name_char(ch) == IF ch = 12685 THEN 183 ELSE ch

normalize_name(text) ==
    LET kept == SelectSeq(text, LAMBDA ch : ch # 32 /\ ch # 9)
    IN  [i \in 1..Len(kept) |-> normalize_name_char(kept[i])]

\* os.getenv("CHANGELOG_START_DATE", "20210101")'s date, or "20210101"
history_start_yyyymmdd(raw) == StrOr(normalize_date(raw), Dec(20210101))

\* "NEW" or "MOD"
status_changes(prev, status_key) ==
    IF "status_key" \notin DOMAIN prev[1] THEN "MOD"
    ELSE IF prev[1]["status_key"] # status_key THEN "MOD" ELSE "OK"

\* the comparison the other way round
status_from_prev_inverted(prev, status_key) ==
    IF Falsy(prev) THEN "NEW"
    ELSE IF "status_key" \in DOMAIN prev[1] /\ prev[1]["status_key"] = status_key
         THEN "MOD" ELSE "OK"

status_from_prev(prev, status_key) ==
    IF Falsy(prev) THEN "NEW" ELSE status_changes(prev, status_key)

\* line 952, the rule for bills written in place
bill_status(prev, current_key) ==
    IF Falsy(prev) THEN "NEW" ELSE status_changes(prev, current_key)

\* lines 762-765: one field of the summary, with old and new already stripped
summary_diff(label, old, new) ==
    label \o COLON_SPACE \o StrOr(old, HYPHEN) \o ARROW \o StrOr(new, HYPHEN)

summary_field(prev, current, field) ==
    [label |-> field.label,
     old   |-> strip(Get(prev, field.key, <<>>)),
     new   |-> strip(Get(current, field.key, <<>>))]

summary_texts(changed) ==
    [i \in 1..Len(changed) |-> summary_diff(changed[i].label, changed[i].old, changed[i].new)]

summary_diffs(prev, current, fields) ==
    summary_texts(SelectSeq([i \in 1..Len(fields) |-> summary_field(prev, current, fields[i])],
                            LAMBDA d : d.old # d.new))

build_change_summary(prev, current, fields) ==
    IF Falsy(prev) THEN SUMMARY_NEW
    ELSE StrOr(Join(SEMI_SPACE, summary_diffs(prev[1], current, fields)), SUMMARY_NONE)

build_law_diff_url(title, info) ==
    IF strip(Get(info, "law_id", <<>>)) # <<>>
    THEN URL_LAW_SEQ \o strip(Get(info, "law_id", <<>>)) \o URL_LAW_EFYD \o Get(info, "ld", <<>>)
    ELSE URL_SEARCH \o title

build_admrul_diff_url(title, info) ==
    IF strip(Get(info, "admrul_id", <<>>)) # <<>>
    THEN URL_ADMRUL \o strip(Get(info, "admrul_id", <<>>))
    ELSE URL_SEARCH \o title

build_bill_diff_url(bill_id) == URL_BILL \o bill_id

\* line 788: rank.get(status, 0)
dedupe_rank(status) ==
    CASE status = "NEW" -> 3 [] status = "MOD" -> 2 [] status = "OK" -> 1 [] OTHER -> 0

\* line 791
dedupe_key(item) ==
    Join(COLONCOLON, <<Get(item, "kind", <<>>), Get(item, "title", <<>>), Get(item, "id", <<>>)>>)

\* lines 792-797, for the key of the item
dedupe_store(merged, key, item) ==
    IF ~DictHas(merged, key) THEN DictPut(merged, key, item)
    ELSE IF dedupe_rank(Get(item, "status", "")) > dedupe_rank(Get(DictGet(merged, key), "status", ""))
         THEN DictPut(merged, key, item)
    ELSE merged

RECURSIVE dedupe_loop(_, _)
dedupe_loop(items, n) ==
    IF n = 0 THEN <<>>
    ELSE dedupe_store(dedupe_loop(items, n - 1), dedupe_key(items[n]), items[n])

dedupe_items(items) == DictValues(dedupe_loop(items, Len(items)))

\* line 802: kind_order.get(kind, 9)
kind_order(kind) ==
    CASE kind = KIND_LAW -> 0 [] kind = KIND_ADMRUL -> 1 [] kind = KIND_BILL -> 2 [] OTHER -> 9

\* lines 805-809, the date not negated
sort_items_key(item) ==
    << kind_order(Get(item, "kind", <<>>)),
       date_sort_value(Get(item, "date", <<>>)),
       Get(item, "title", <<>>) >>

\* ka < kb for the tuples (ka[1], -ka[2], ka[3])
sort_items_key_less(ka, kb) ==
    \/ ka[1] < kb[1]
    \/ ka[1] = kb[1] /\ ka[2] > kb[2]
    \/ ka[1] = kb[1] /\ ka[2] = kb[2] /\ StrLess(ka[3], kb[3])

sort_items_keyed(items) ==
    [i \in 1..Len(items) |-> [key |-> sort_items_key(items[i]), item |-> items[i]]]

sort_items_keyed_less(a, b) == sort_items_key_less(a.key, b.key)

sort_items(items) == Items(StableSort(sort_items_keyed(items), sort_items_keyed_less))

\* line 816
fallback_law_title(key, prev) ==
    StrOr(Get(prev, "law_name", <<>>), StrOr(Get(prev, "name", <<>>), key))

\* lines 817-820: the record is shown
fallback_law_shown(title, existed_titles) ==
    /\ title # <<>>
    /\ title \notin existed_titles
    /\ \E i \in 1..Len(LAW_NAMES) :
          StartsWith(normalize_name(title), normalize_name(LAW_NAMES[i]))

\* lines 822-827
fallback_law_info(prev) ==
    [ld          |-> normalize_date(StrOr(Get(prev, "ld", <<>>), Get(prev, "date", <<>>))),
     ln          |-> StrOr(Get(prev, "ln", <<>>), Get(prev, "num", <<>>)),
     reform_type |-> StrOr(Get(prev, "reform_type", <<>>), Get(prev, "type", <<>>)),
     law_id      |-> StrOr(Get(prev, "law_id", <<>>), Get(prev, "id", <<>>))]

\* line 828, and lines 894 and 333
law_item_id(info, title) ==
    StrOr(strip_bar(Join(BAR, <<Get(info, "ln", <<>>), Get(info, "ld", <<>>),
                                Get(info, "reform_type", <<>>)>>)),
          title)

\* lines 829-840
fallback_law_item(title, info) ==
    [status |-> "OK", status_ko |-> KO_OK, kind |-> KIND_LAW, title |-> title,
     date |-> info.ld, id |-> law_item_id(info, title),
     diff_url |-> build_law_diff_url(title, info), note |-> NOTE_LAW]

fallback_law_entry(e) ==
    fallback_law_item(fallback_law_title(e.k, e.v), fallback_law_info(e.v))

fallback_law_each(shown) == [i \in 1..Len(shown) |-> fallback_law_entry(shown[i])]

fallback_law_items(state_laws, existed_titles) ==
    fallback_law_each(
        SelectSeq(state_laws,
                  LAMBDA e : fallback_law_shown(fallback_law_title(e.k, e.v), existed_titles)))

\* line 849, and lines 919 and 630
admrul_key(info) == Join(COLONCOLON, <<Get(info, "title", <<>>), Get(info, "num", <<>>)>>)

\* line 850: the record is shown
fallback_admrul_shown(prev, existed_keys) ==
    Get(prev, "title", <<>>) # <<>> /\ admrul_key(prev) \notin existed_keys

\* lines 853-858
fallback_admrul_info(prev) ==
    [promulgation_date |-> normalize_date(Get(prev, "promulgation_date", <<>>)),
     enforce_date      |-> normalize_date(Get(prev, "enforce_date", <<>>)),
     num               |-> Get(prev, "num", <<>>),
     admrul_id         |-> Get(prev, "admrul_id", <<>>)]

\* line 859, and lines 927 and 385
admrul_item_id(info, uniq_key) ==
    StrOr(strip_bar(Join(BAR, <<Get(info, "num", <<>>), Get(info, "promulgation_date", <<>>),
                                Get(info, "enforce_date", <<>>)>>)),
          uniq_key)

\* lines 860-870
fallback_admrul_item(title, uniq_key, info) ==
    [status |-> "OK", status_ko |-> KO_OK, kind |-> KIND_ADMRUL, title |-> title,
     date |-> StrOr(info.promulgation_date, info.enforce_date),
     id |-> admrul_item_id(info, uniq_key),
     diff_url |-> build_admrul_diff_url(title, info), note |-> NOTE_ADMRUL]

fallback_admrul_entry(prev) ==
    fallback_admrul_item(Get(prev, "title", <<>>), admrul_key(prev), fallback_admrul_info(prev))

fallback_admrul_each(shown) == [i \in 1..Len(shown) |-> fallback_admrul_entry(shown[i].v)]

fallback_admrul_items(state_admruls, existed_keys) ==
    fallback_admrul_each(
        SelectSeq(state_admruls, LAMBDA e : fallback_admrul_shown(e.v, existed_keys)))

\* how many items are of this kind
count_of_kind(items, kind) ==
    Cardinality({i \in 1..Len(items) : Get(items[i], "kind", <<>>) = kind})

count_by_kind(items) ==
    [law    |-> count_of_kind(items, KIND_LAW),
     admrul |-> count_of_kind(items, KIND_ADMRUL),
     bill   |-> count_of_kind(items, KIND_BILL)]

\* item.get("diff_url") is None: the entry has no diff_url
entry_with_diff_url(entry, item) ==
    IF "diff_url" \in DOMAIN item THEN SetField(entry, "diff_url", item["diff_url"]) ELSE entry

entry_with_key(entry) == SetField(entry, "history_key", history_item_key(entry))

\* now_iso: what now_utc_iso_ms() returns in to_iso_utc_from_yyyymmdd
history_entry_from_item(item, source, fallback_iso, now_iso) ==
    entry_with_key(entry_with_diff_url(
        [status          |-> Get(item, "status", "MOD"),
         status_ko       |-> Get(item, "status_ko", STATUS_KO(Get(item, "status", "MOD"), KO_MOD)),
         kind            |-> Get(item, "kind", <<>>),
         title           |-> Get(item, "title", <<>>),
         date            |-> normalize_date(Get(item, "date", <<>>)),
         id              |-> Get(item, "id", <<>>),
         change_summary  |-> Get(item, "change_summary", <<>>),
         source          |-> source,
         detected_at_utc |-> normalize_detected_at_utc(item, fallback_iso, now_iso)],
        item))

history_entries(items, source, iso) ==
    [i \in 1..Len(items) |-> history_entry_from_item(items[i], source, iso, iso)]

---------------------------------------------------------------------------
(* The files run_web reads *)

\* a file is [form |-> "missing"], [form |-> "unparseable"], a JSON array
\* [form |-> "list", items |-> ...] or a JSON object [form |-> "object", ...]
MissingFile == [form |-> "missing"]

\* load_state(): the three maps; a Python dict is the sequence of its
\* [k |-> key, v |-> value] pairs in insertion order
load_state(file) ==
    IF file.form = "object"
    THEN [laws    |-> Get(file, "laws", <<>>),
          admruls |-> Get(file, "admruls", <<>>),
          bills   |-> Get(file, "bills", <<>>)]
    ELSE [laws |-> <<>>, admruls |-> <<>>, bills |-> <<>>]

\* lines 220-234, for the file that was read; seeded_from None is the empty text
parse_history(src) ==
    IF src.form = "list" THEN [seeded_from |-> <<>>, items |-> src.items]
    ELSE IF src.form = "object"
         THEN [seeded_from |-> Get(src, "seeded_from", <<>>), items |-> Get(src, "items", <<>>)]
    ELSE [seeded_from |-> <<>>, items |-> <<>>]

\* load_history(): history.json, or else the changelog of the published site
load_history(history, changelog) ==
    parse_history(IF history.form # "missing" THEN history ELSE changelog)

---------------------------------------------------------------------------
(* run_web *)

\* the run starts from empty maps instead of the loaded state
run_start_fresh(state) ==
    [laws |-> <<>>, admruls |-> <<>>, bills |-> <<>>,
     seen |-> {}, all_items |-> <<>>, events |-> <<>>,
     fb_laws |-> FALSE, fb_admruls |-> FALSE]

\* lines 877-881: the state as loaded, nothing collected yet
run_start(state) ==
    [laws |-> state.laws, admruls |-> state.admruls, bills |-> state.bills,
     seen |-> {}, all_items |-> <<>>, events |-> <<>>,
     fb_laws |-> FALSE, fb_admruls |-> FALSE]

\* the record is written only when it changed
state_put_if_changed(records, key, status, info, current_key) ==
    IF status = "OK" THEN records
    ELSE DictPut(records, key, SetField(info, "status_key", current_key))

\* lines 909, 941, 967: state[kind][key] = {"status_key": current_key, **info}
state_put(records, key, status, info, current_key) ==
    DictPut(records, key, SetField(info, "status_key", current_key))

\* lines 905-906, 938-939, 964-965
with_summary(item, status, prev, info, fields) ==
    IF status \in {"NEW", "MOD"}
    THEN SetField(item, "change_summary", build_change_summary(prev, info, fields))
    ELSE item

\* what the run saw when it classified a record
Event(kind, key, prev, current_key, status, info) ==
    [kind |-> kind, key |-> key, prev |-> prev, current_key |-> current_key,
     status |-> status, info |-> info]

\* line 890
law_key(info, law_name) == StrOr(Get(info, "law_name", <<>>), law_name)

\* line 891
law_current_key(info) ==
    Join(BAR, <<Get(info, "ld", <<>>), Get(info, "ln", <<>>), Get(info, "reform_type", <<>>)>>)

\* lines 896-904
law_item(info, key, status) ==
    [status |-> status, status_ko |-> STATUS_KO(status, status), kind |-> KIND_LAW,
     title |-> key, date |-> Get(info, "ld", <<>>), id |-> law_item_id(info, key),
     diff_url |-> build_law_diff_url(key, info)]

\* lines 896-909
law_classified(ctx, info, key, prev, current_key, status) ==
    [ctx EXCEPT
        !.all_items = Append(@, with_summary(law_item(info, key, status), status, prev, info,
                                             LAW_CHANGE_FIELDS)),
        !.seen   = @ \cup {key},
        !.laws   = state_put(@, key, status, info, current_key),
        !.events = Append(@, Event("laws", key, prev, current_key, status, info))]

\* lines 892-893
law_found(ctx, info, key, prev, current_key) ==
    law_classified(ctx, info, key, prev, current_key, status_from_prev(prev, current_key))

\* lines 890-892
law_hit(ctx, info, key) == law_found(ctx, info, key, OptGet(ctx.laws, key), law_current_key(info))

\* lines 886-909; found is what law_search(law_name) returned
law_step(ctx, law_name, found) ==
    IF found = <<>> THEN ctx ELSE law_hit(ctx, found[1], law_key(found[1], law_name))

RECURSIVE law_loop(_, _, _)
law_loop(ctx, results, n) ==
    IF n = 0 THEN ctx ELSE law_step(law_loop(ctx, results, n - 1), LAW_NAMES[n], results[n])

\* lines 911-913
law_fallback(ctx) ==
    IF ctx.seen = {} /\ ctx.laws # <<>>
    THEN [ctx EXCEPT !.all_items = @ \o fallback_law_items(ctx.laws, ctx.seen),
                     !.fb_laws = TRUE]
    ELSE ctx

\* lines 884-913; results[i] is what law_search(LAW_NAMES[i]) returns
run_laws(ctx, results) == law_fallback(law_loop(ctx, results, Len(LAW_NAMES)))

\* line 924
admrul_current_key(info) ==
    Join(BAR, <<Get(info, "promulgation_date", <<>>), Get(info, "enforce_date", <<>>),
                Get(info, "num", <<>>)>>)

\* lines 929-937
admrul_item(info, key, status) ==
    [status |-> status, status_ko |-> STATUS_KO(status, status), kind |-> KIND_ADMRUL,
     title |-> Get(info, "title", <<>>),
     date |-> StrOr(Get(info, "promulgation_date", <<>>), Get(info, "enforce_date", <<>>)),
     id |-> admrul_item_id(info, key),
     diff_url |-> build_admrul_diff_url(Get(info, "title", <<>>), info)]

\* lines 922-941
admrul_classified(ctx, info, key, prev, current_key, status) ==
    [ctx EXCEPT
        !.all_items = Append(@, with_summary(admrul_item(info, key, status), status, prev, info,
                                             ADMRUL_CHANGE_FIELDS)),
        !.seen    = @ \cup {key},
        !.admruls = state_put(@, key, status, info, current_key),
        !.events  = Append(@, Event("admruls", key, prev, current_key, status, info))]

admrul_found(ctx, info, key, prev, current_key) ==
    admrul_classified(ctx, info, key, prev, current_key, status_from_prev(prev, current_key))

admrul_hit(ctx, info, key) ==
    admrul_found(ctx, info, key, OptGet(ctx.admruls, key), admrul_current_key(info))

\* lines 919-941
admrul_step(ctx, info) ==
    IF admrul_key(info) \in ctx.seen THEN ctx ELSE admrul_hit(ctx, info, admrul_key(info))

RECURSIVE admrul_loop(_, _, _)
admrul_loop(ctx, infos, n) ==
    IF n = 0 THEN ctx ELSE admrul_step(admrul_loop(ctx, infos, n - 1), infos[n])

\* lines 943-945
admrul_fallback(ctx) ==
    IF ctx.seen = {} /\ ctx.admruls # <<>>
    THEN [ctx EXCEPT !.all_items = @ \o fallback_admrul_items(ctx.admruls, ctx.seen),
                     !.fb_admruls = TRUE]
    ELSE ctx

admrul_all(ctx, infos) == admrul_fallback(admrul_loop(ctx, infos, Len(infos)))

\* lines 916-945; results[i] is what admrul_search(ADMRUL_QUERIES[i]) returns
run_admruls(ctx, results) == admrul_all([ctx EXCEPT !.seen = {}], Flatten(results))

\* line 950
bill_current_key(info) ==
    Join(BAR, <<Get(info, "bill_no", <<>>), Get(info, "proc_result", <<>>),
                Get(info, "propose_dt", <<>>)>>)

\* lines 954-963
bill_item(info, status, generated_utc) ==
    [status |-> status, status_ko |-> STATUS_KO(status, status), kind |-> KIND_BILL,
     title |-> Get(info, "bill_name", <<>>), date |-> Get(info, "propose_dt", <<>>),
     id |-> info["bill_id"], diff_url |-> build_bill_diff_url(info["bill_id"]),
     detected_at_utc |-> generated_utc]

\* lines 954-967
bill_classified(ctx, info, prev, current_key, status, generated_utc) ==
    [ctx EXCEPT
        !.all_items = Append(@, with_summary(bill_item(info, status, generated_utc), status,
                                             prev, info, BILL_CHANGE_FIELDS)),
        !.bills  = state_put(@, info["bill_id"], status, info, current_key),
        !.events = Append(@, Event("bills", info["bill_id"], prev, current_key, status, info))]

\* line 952
bill_found(ctx, info, prev, current_key, generated_utc) ==
    bill_classified(ctx, info, prev, current_key, bill_status(prev, current_key), generated_utc)

\* lines 949-967
bill_step(ctx, info, generated_utc) ==
    bill_found(ctx, info, OptGet(ctx.bills, info["bill_id"]), bill_current_key(info),
               generated_utc)

RECURSIVE bill_loop(_, _, _, _)
bill_loop(ctx, infos, n, generated_utc) ==
    IF n = 0 THEN ctx
    ELSE bill_step(bill_loop(ctx, infos, n - 1, generated_utc), infos[n], generated_utc)

\* lines 948-967; infos is what bill_items() returns
run_bills(ctx, infos, generated_utc) == bill_loop(ctx, infos, Len(infos), generated_utc)

\* every item is taken for a change, whatever its status
is_change_any_status(item) == Get(item, "status", "") \in {"NEW", "MOD", "OK"}

\* line 970
is_change(item) == Get(item, "status", "") \in {"NEW", "MOD"}

\* line 979
needs_seed(history, cutoff_yyyymmdd) ==
    \/ history.items = <<>>
    \/ safe_int_yyyymmdd(normalize_date(history.seeded_from)) < safe_int_yyyymmdd(cutoff_yyyymmdd)

\* line 984
seed_base_items(history) ==
    IF normalize_date(history.seeded_from) # <<>> THEN history.items ELSE <<>>

\* merge_history_items at a time when now_utc_iso_ms() returns iso
merge_at(existing, incoming, cutoff_yyyymmdd, iso) ==
    merge_history_items(existing, incoming, cutoff_yyyymmdd,
                        [i \in 1..(Len(existing) + Len(incoming)) |-> iso])

\* lines 980-987: existing_history_items after the seeding
seeded_history_items(history, seed_items, cutoff_yyyymmdd, iso) ==
    IF needs_seed(history, cutoff_yyyymmdd)
    THEN merge_at(seed_base_items(history), history_entries(seed_items, "backfill", iso),
                  cutoff_yyyymmdd, iso)
    ELSE history.items

\* lines 989-992
cumulative_history_items(history, seed_items, delta, cutoff_yyyymmdd, iso) ==
    merge_at(seeded_history_items(history, seed_items, cutoff_yyyymmdd, iso),
             history_entries(delta, "delta", iso), cutoff_yyyymmdd, iso)

\* lines 986 and 993
saved_seeded_from(history, cutoff_yyyymmdd) ==
    IF needs_seed(history, cutoff_yyyymmdd) THEN cutoff_yyyymmdd
    ELSE StrOr(history.seeded_from, cutoff_yyyymmdd)

\* lines 993-1032: what the run writes
run_result(ctx, all_items, delta, history, cutoff_yyyymmdd, cumulative, t) ==
    [state   |-> [form |-> "object", laws |-> ctx.laws, admruls |-> ctx.admruls,
                  bills |-> ctx.bills, last_run |-> now_kst_iso_ms(t)],
     history |-> [form |-> "object",
                  seeded_from |-> saved_seeded_from(history, cutoff_yyyymmdd),
                  last_generated_at_utc |-> now_utc_iso_ms(t),
                  items |-> cumulative],
     updates |-> [form |-> "object",
                  generated_at_utc |-> now_utc_iso_ms(t),
                  count_by_kind |-> count_by_kind(all_items),
                  fallback |-> [laws |-> ctx.fb_laws, admruls |-> ctx.fb_admruls],
                  delta_count_this_run |-> Len(delta),
                  cumulative_history_total |-> Len(cumulative),
                  history_start_yyyymmdd |-> cutoff_yyyymmdd,
                  items |-> all_items],
     changes |-> [form |-> "object",
                  generated_at_utc |-> now_utc_iso_ms(t),
                  range_start_yyyymmdd |-> cutoff_yyyymmdd,
                  count_by_kind |-> count_by_kind(cumulative),
                  delta_count_this_run |-> Len(delta),
                  total_cumulative |-> Len(cumulative),
                  seeded_now |-> needs_seed(history, cutoff_yyyymmdd),
                  items |-> cumulative],
     events  |-> ctx.events]

\* lines 973-992
run_history(ctx, all_items, delta, history, cutoff_yyyymmdd, seed_items, t) ==
    run_result(ctx, all_items, delta, history, cutoff_yyyymmdd,
               cumulative_history_items(history, seed_items, delta, cutoff_yyyymmdd,
                                        now_utc_iso_ms(t)),
               t)

\* line 970
run_delta(ctx, all_items, history, cutoff_yyyymmdd, seed_items, t) ==
    run_history(ctx, all_items, SelectSeq(all_items, is_change), history, cutoff_yyyymmdd,
                seed_items, t)

\* line 969
run_publish(ctx, history, cutoff_yyyymmdd, seed_items, t) ==
    run_delta(ctx, sort_items(dedupe_items(ctx.all_items)), history, cutoff_yyyymmdd,
              seed_items, t)

\* lines 877-967; upstream is what the three services answer in this run
run_fetch(state, upstream, t) ==
    run_bills(run_admruls(run_laws(run_start(state), upstream.laws), upstream.admruls),
              upstream.bills, now_utc_iso_ms(t))

\* run_web at clock value t: every reading of the clock within the run is t
run_web(state_f, history_f, changelog_f, start_date_raw, upstream, seed_items, t) ==
    run_publish(run_fetch(load_state(state_f), upstream, t),
                load_history(history_f, changelog_f),
                history_start_yyyymmdd(start_date_raw), seed_items, t)

\* lines 327-346: the backfill item of a statute revision found by the search
collect_law_backfill_item(title, info, now_iso) ==
    [status |-> "MOD", status_ko |-> KO_MOD, kind |-> KIND_LAW, title |-> title,
     date |-> info.ld, id |-> law_item_id(info, title),
     diff_url |-> build_law_diff_url(title, info),
     change_summary |-> SUMMARY_BACKFILL,
     detected_at_utc |-> to_iso_utc_from_yyyymmdd(info.ld, now_iso)]

wvars == <<CHANGELOG_START_DATE, state_file, history_file, changelog_file, updates_json,
           events, state_before, ledger_before, run_cutoff, seeded_before, svars, dvars>>

vars == <<clock, mvars, wvars>>

\* no process is running and none has run
StepsIdle ==
    /\ pc = "idle"
    /\ run_mem = <<>>
    /\ state_tmp = MissingFile
    /\ outcome = "none"

\* the date harness is not in use
DateIdle ==
    /\ dpc = "idle"
    /\ date_arg = <<>>
    /\ date_out = <<>>

\* no run of run_web was made
WebIdle ==
    /\ CHANGELOG_START_DATE = Dec(20210101)
    /\ state_file = MissingFile
    /\ history_file = MissingFile
    /\ changelog_file = MissingFile
    /\ updates_json = MissingFile
    /\ events = <<>>
    /\ state_before = load_state(MissingFile)
    /\ ledger_before = <<>>
    /\ run_cutoff = <<>>
    /\ seeded_before = <<>>
    /\ StepsIdle

---------------------------------------------------------------------------
(* The merge harness: merge_history_items applied to bounded inputs *)

\* at most this many entries in existing_items and incoming_items together
MaxEntries == 2

\* the clock advances at most this many milliseconds
MaxClock == 2

TITLE_CAA    == <<67, 108, 101, 97, 110, 32, 65, 105, 114, 32, 65, 99, 116>>  \* "Clean Air Act"
TITLE_NOTICE == <<78, 111, 116, 105, 99, 101, 32, 66>>                        \* "Notice B"
TWO_SPACES   == <<32, 32>>

\* "YYYY-MM-DDTHH:MM:SS" followed by the zone text
IsoText(y, m, d, hh, mm, zone) ==
    Pad(y, 4) \o HYPHEN \o Pad(m, 2) \o HYPHEN \o Pad(d, 2) \o <<84>>
    \o Pad(hh, 2) \o <<58>> \o Pad(mm, 2) \o <<58, 48, 48>> \o zone

TS_1      == IsoText(2022, 5, 5, 0, 0, <<90>>)       \* "2022-05-05T00:00:00Z"
TS_1_PLUS == IsoText(2022, 5, 5, 0, 0, PLUS_ZERO)    \* "2022-05-05T00:00:00+00:00"
TS_2      == IsoText(2022, 5, 6, 9, 30, <<90>>)      \* "2022-05-06T09:30:00Z"
TS_OLD    == IsoText(2020, 6, 1, 0, 0, <<90>>)       \* "2020-06-01T00:00:00Z"
TS_BAD    == <<98, 97, 100>>                         \* "bad"

\* the statute entry of the spec's scenario, detected at TS_1
EntryA == [status |-> "MOD", kind |-> KIND_LAW, title |-> TITLE_CAA,
           date |-> Dec(20220505), id |-> Dec(123), detected_at_utc |-> TS_1]
\* the same entry detected later
EntryB == [EntryA EXCEPT !.detected_at_utc = TS_2]
\* the same entry at the instant of EntryA written with another zone text, and
\* carrying its history_key with surrounding blanks
EntryC == [status |-> "NEW", kind |-> KIND_LAW, title |-> TITLE_CAA,
           date |-> Dec(20220505), id |-> Dec(123), detected_at_utc |-> TS_1_PLUS,
           history_key |-> <<32>> \o history_item_key(EntryA) \o <<32>>]
\* the same entry with a timestamp that does not parse
EntryM == [EntryA EXCEPT !.detected_at_utc = TS_BAD]
\* a notice dated on the cutoff day, date not normalized, no timestamp
EntryG == [status |-> "NEW", kind |-> KIND_ADMRUL, title |-> TITLE_NOTICE,
           date |-> <<50, 48, 50, 49, 45, 48, 49, 45, 48, 49>>, id |-> Dec(7)]
\* a statute dated the day before the cutoff
EntryO == [status |-> "MOD", kind |-> KIND_LAW, title |-> TITLE_CAA,
           date |-> Dec(20201231), id |-> Dec(99)]
\* neither date nor timestamp
EntryN == [status |-> "NEW", kind |-> KIND_BILL, title |-> TITLE_NOTICE, id |-> Dec(5)]
\* no date, detected before the cutoff
EntryT == [status |-> "NEW", kind |-> KIND_BILL, title |-> TITLE_NOTICE, id |-> Dec(6),
           date |-> <<>>, detected_at_utc |-> TS_OLD]
\* two different entries that arrive with the same blank history_key; they
\* differ from EntryA and from each other in id only
EntryW1 == [status |-> "MOD", kind |-> KIND_LAW, title |-> TITLE_CAA,
            date |-> Dec(20220505), id |-> Dec(1), detected_at_utc |-> TS_1,
            history_key |-> TWO_SPACES]
EntryW2 == [EntryW1 EXCEPT !.id = Dec(2)]
\* a date of zeros
EntryZ == [status |-> "MOD", kind |-> KIND_LAW, title |-> TITLE_CAA,
           date |-> Pad(0, 8), id |-> Dec(3), detected_at_utc |-> TS_1]
\* a notice of the day and instant of EntryA
EntryK == [status |-> "NEW", kind |-> KIND_ADMRUL, title |-> TITLE_NOTICE,
           date |-> Dec(20220505), id |-> Dec(8), detected_at_utc |-> TS_1]
\* an element that is not an object
EntryX == [nondict |-> TRUE]

MergePool == {EntryA, EntryB, EntryC, EntryM, EntryG, EntryO, EntryN,
              EntryT, EntryW1, EntryW2, EntryZ, EntryK, EntryX}

MergeCutoffs == {Dec(20210101)}

SeqsUpTo(S, n) == UNION {[1..k -> S] : k \in 0..n}

\* the readings of now_utc_iso_ms() in a call that makes n of them, when the
\* clock advances by one millisecond right before reading tickAt (0: it does not)
ClockReadings(t, n, tickAt) ==
    [i \in 1..n |-> now_utc_iso_ms(IF tickAt # 0 /\ i >= tickAt THEN t + 1 ELSE t)]

ClockAfter(t, tickAt) == IF tickAt # 0 THEN t + 1 ELSE t

\* the points at which the clock may advance during a call that reads it n times
TickChoices(t, n) == IF t < MaxClock THEN 0..n ELSE {0}

MergeInit ==
    /\ clock = 0
    /\ mpc = "start"
    /\ existing_items \in SeqsUpTo(MergePool, MaxEntries)
    /\ incoming_items \in SeqsUpTo(MergePool, MaxEntries)
    /\ Len(existing_items) + Len(incoming_items) <= MaxEntries
    /\ cutoff_arg \in MergeCutoffs
    /\ out1 = <<>>
    /\ out2 = <<>>
    /\ outRev = <<>>
    /\ outLater = <<>>
    /\ WebIdle
    /\ DateIdle

\* M = merge_history_items(L, D, c)
CallMerge ==
    /\ mpc = "start"
    /\ \E tickAt \in TickChoices(clock, Len(existing_items) + Len(incoming_items)) :
          /\ out1' = merge_history_items(existing_items, incoming_items, cutoff_arg,
                        ClockReadings(clock, Len(existing_items) + Len(incoming_items), tickAt))
          /\ clock' = ClockAfter(clock, tickAt)
    /\ mpc' = "merged"
    /\ UNCHANGED <<existing_items, incoming_items, cutoff_arg, out2, outRev, outLater, wvars>>

\* merge_history_items(L, M, c): the result folded in again
CallMergeAgain ==
    /\ mpc = "merged"
    /\ \E tickAt \in TickChoices(clock, Len(existing_items) + Len(out1)) :
          /\ out2' = merge_history_items(existing_items, out1, cutoff_arg,
                        ClockReadings(clock, Len(existing_items) + Len(out1), tickAt))
          /\ clock' = ClockAfter(clock, tickAt)
    /\ mpc' = "remerged"
    /\ UNCHANGED <<existing_items, incoming_items, cutoff_arg, out1, outRev, outLater, wvars>>

\* merge_history_items on the same two collections, each in reversed order
CallMergeReversed ==
    /\ mpc = "remerged"
    /\ \E tickAt \in TickChoices(clock, Len(existing_items) + Len(incoming_items)) :
          /\ outRev' = merge_history_items(Reverse(existing_items), Reverse(incoming_items),
                        cutoff_arg,
                        ClockReadings(clock, Len(existing_items) + Len(incoming_items), tickAt))
          /\ clock' = ClockAfter(clock, tickAt)
    /\ mpc' = "done"
    /\ UNCHANGED <<existing_items, incoming_items, cutoff_arg, out1, out2, outLater, wvars>>

\* merge_history_items(L, D, c) once more, one millisecond after the last reading
CallMergeLater ==
    /\ mpc = "merged"
    /\ clock < MaxClock
    /\ outLater' = merge_history_items(existing_items, incoming_items, cutoff_arg,
                      ClockReadings(clock + 1, Len(existing_items) + Len(incoming_items), 0))
    /\ clock' = clock + 1
    /\ mpc' = "later"
    /\ UNCHANGED <<existing_items, incoming_items, cutoff_arg, out1, out2, outRev, wvars>>

MergeNext == CallMerge \/ CallMergeAgain \/ CallMergeReversed \/ CallMergeLater

SpecMerge == MergeInit /\ [][MergeNext]_vars

---------------------------------------------------------------------------
(* Properties of merge_history_items *)

MergeInputs == existing_items \o incoming_items

MergeCut == safe_int_yyyymmdd(cutoff_arg)

\* the entry's detection timestamp does not come from the clock
ClockFree(raw) ==
    \/ ~IsDict(raw)
    \/ strip(Get(raw, "detected_at_utc", <<>>)) # <<>>
    \/ Len(normalize_date(Get(raw, "date", <<>>))) = 8

ClockFreeInputs == \A i \in 1..Len(MergeInputs) : ClockFree(MergeInputs[i])

\* the objects among the inputs whose normalized form is the same at any time,
\* normalized
ClockFreeCandidates ==
    {merge_normalize(MergeInputs[i], now_utc_iso_ms(0)) :
        i \in {j \in 1..Len(MergeInputs) : IsDict(MergeInputs[j]) /\ ClockFree(MergeInputs[j])}}

EntryDateNum(e)  == safe_int_yyyymmdd(Get(e, "date", <<>>))
EntryStampNum(e) == safe_int_yyyymmdd(yyyymmdd_from_iso(Get(e, "detected_at_utc", <<>>)))
EntryStamp(e)    == iso_sort_value(Get(e, "detected_at_utc", <<>>))

\* C1: merge_history_items is idempotent: merging the ledger L with the result
\* of merge_history_items(L, D, c) returns that result again, with the same
\* entries, field values and order.
C1_Idempotent == mpc \in {"remerged", "done"} => out2 = out1

\* Idempotence for inputs whose every entry has a detection timestamp or a
\* date of 8 digits.
MergeIdempotentClockFree ==
    (mpc \in {"remerged", "done"} /\ ClockFreeInputs) => out2 = out1

\* C2: no two entries of the list returned by merge_history_items carry the
\* same history_key field value.
C2_UniqueHistoryKey ==
    mpc # "start" =>
        \A i, j \in 1..Len(out1) :
            i < j => Get(out1[i], "history_key", <<>>) # Get(out1[j], "history_key", <<>>)

\* s survives where t was a candidate for the same key
C3_Beats(s, t) ==
    /\ ~IsoLess(iso_sort_value(s), iso_sort_value(t))
    /\ iso_sort_value(s) = iso_sort_value(t) => ~StrLess(s, t)

\* C3: among the candidates that share a history_key the survivor is the one
\* with the greatest detection timestamp; candidates at the same instant are
\* told apart by comparing the timestamp texts, and a timestamp that does not
\* parse counts as zero.
C3_LatestWins ==
    mpc # "start" =>
        \A cand \in ClockFreeCandidates : \A i \in 1..Len(out1) :
            merge_key(out1[i]) = merge_key(cand)
                => C3_Beats(out1[i]["detected_at_utc"], cand["detected_at_utc"])

\* C4 as stated: every returned entry has a normalized date numerically at
\* least the cutoff, unless the date is empty.
C4_CutoffAsStated ==
    mpc # "start" =>
        \A i \in 1..Len(out1) :
            Get(out1[i], "date", <<>>) # <<>> => EntryDateNum(out1[i]) >= MergeCut

\* C4: every returned entry has a date numerically at least the cutoff, or a
\* date that is empty or numerically zero together with a detection timestamp
\* whose first 8 digits are absent, zero, or at least the cutoff; and every
\* input entry dated on or after the cutoff is retained.
C4_Cutoff ==
    mpc # "start" =>
        /\ \A i \in 1..Len(out1) :
              \/ EntryDateNum(out1[i]) >= MergeCut
              \/ /\ EntryDateNum(out1[i]) = 0
                 /\ EntryStampNum(out1[i]) = 0 \/ EntryStampNum(out1[i]) >= MergeCut
        /\ \A cand \in ClockFreeCandidates :
              EntryDateNum(cand) >= MergeCut
                  => \E i \in 1..Len(out1) : merge_key(out1[i]) = merge_key(cand)

\* C4: into an empty ledger, with the cutoff 20210101, come an entry dated
\* 20201231 and an entry dated 2021-01-01: only the second is returned.
C4_Witness ==
    /\ mpc = "merged"
    /\ existing_items = <<>>
    /\ incoming_items = <<EntryO, EntryG>>
    /\ Len(out1) = 1
    /\ out1[1]["date"] = Dec(20210101)

\* C5: the result does not depend on the order in which the entries arrive:
\* with each collection reversed, the same entries survive in the same order.
\* Stated for inputs whose normalized form does not depend on the clock.
C5_OrderIndependent ==
    (mpc = "done" /\ ClockFreeInputs) => outRev = out1

\* a may stand right before b in the result
C6_InOrder(ta, tb, da, db, a, b) ==
    \/ IsoLess(tb, ta)
    \/ ta = tb /\ da > db
    \/ ta = tb /\ da = db /\ StrLess(Get(a, "kind", <<>>), Get(b, "kind", <<>>))
    \/ /\ ta = tb /\ da = db /\ Get(a, "kind", <<>>) = Get(b, "kind", <<>>)
       /\ ~StrLess(Get(b, "title", <<>>), Get(a, "title", <<>>))

C6_SortedList(out) ==
    \A i \in 1..(Len(out) - 1) :
        C6_InOrder(EntryStamp(out[i]), EntryStamp(out[i + 1]),
                   date_sort_value(Get(out[i], "date", <<>>)),
                   date_sort_value(Get(out[i + 1], "date", <<>>)),
                   out[i], out[i + 1])

\* C6: the returned list is sorted by detection timestamp descending, then
\* date descending with the empty date as 0, then kind ascending, then title
\* ascending.
C6_Sorted == C6_SortedList(out1) /\ C6_SortedList(out2) /\ C6_SortedList(outRev)

\* C6: two entries of the same instant arrive with the undated one first, and
\* are returned with the dated one first.
C6_Witness ==
    /\ mpc = "merged"
    /\ Len(existing_items) = 2 /\ incoming_items = <<>>
    /\ Len(out1) = 2
    /\ EntryStamp(out1[1]) = EntryStamp(out1[2])
    /\ EntryDateNum(out1[1]) > EntryDateNum(out1[2])
    /\ Get(out1[1], "id", <<>>) = Get(existing_items[2], "id", <<>>)
    /\ Get(out1[2], "id", <<>>) = Get(existing_items[1], "id", <<>>)

\* C16: merge_history_items is a function of its arguments only: called again
\* on the same existing entries, incoming entries and cutoff at a later
\* wall-clock time, it returns the same list.
C16_ClockIndependent == mpc = "later" => outLater = out1

---------------------------------------------------------------------------
(* Runs of run_web on bounded answers of the upstream services *)

REFORM_AMEND  == <<44060, 51221>>     \* U+AC1C U+C815, "amendment"
PROC_PASSED   == <<50896, 50504, 44032, 44208>>   \* "passed as proposed"
NOTICE_NAME_1 == <<45824, 44592, 50724, 50684, 44277, 51221, 49884, 54744, 44592, 51456>>
BILL_NAME_1   == <<45824, 44592, 54872, 44221, 48372, 51204, 48277, 32, 51068, 48512, 44060,
                   51221, 48277, 47456, 50504>>

\* the decree with the fingerprint "20210101|123|<amendment>"
LawV1 == [law_name |-> LAW_NAME_2, ld |-> Dec(20210101), ln |-> Dec(123),
          reform_type |-> REFORM_AMEND, law_id |-> Dec(1)]
\* its next revision, "20220505|124|<amendment>"
LawV2 == [law_name |-> LAW_NAME_2, ld |-> Dec(20220505), ln |-> Dec(124),
          reform_type |-> REFORM_AMEND, law_id |-> Dec(2)]
\* the first revision under another serial number: the fingerprint of LawV1
LawV1b == [LawV1 EXCEPT !.law_id = Dec(3)]
\* the act itself
LawAct == [law_name |-> LAW_NAME_1, ld |-> Dec(20210701), ln |-> Dec(200),
           reform_type |-> REFORM_AMEND, law_id |-> Dec(4)]

NoticeV1 == [title |-> NOTICE_NAME_1, dept |-> <<>>, num |-> Dec(55),
             promulgation_date |-> Dec(20210301), enforce_date |-> Dec(20210401),
             admrul_id |-> Dec(10)]
\* the same notice with a later enforcement date
NoticeV2 == [NoticeV1 EXCEPT !.enforce_date = Dec(20210501)]

BillV1 == [bill_id |-> <<66, 49>>, bill_no |-> Dec(2100001), bill_name |-> BILL_NAME_1,
           propose_dt |-> Dec(20210601), proc_result |-> <<>>]
\* the same bill once it is passed
BillV2 == [BillV1 EXCEPT !.proc_result = PROC_PASSED]

\* what law_search returns for LAW_NAMES[1] and LAW_NAMES[2]: None is <<>>
NoLaws == << <<>>, <<>> >>
LawAnswers ==
    { << <<>>, <<LawV1>> >>,
      << <<>>, <<LawV2>> >>,
      << <<>>, <<LawV1b>> >>,
      << <<LawV1>>, <<LawV1>> >>,
      << <<LawV2>>, <<LawV1>> >>,
      << <<LawAct>>, <<LawV2>> >> }

\* what admrul_search returns for ADMRUL_QUERIES[1] and ADMRUL_QUERIES[2]
NoAdmruls == << <<>>, <<>> >>
AdmrulAnswers ==
    { << <<NoticeV1>>, <<>> >>,
      << <<NoticeV2>>, <<>> >>,
      << <<NoticeV2>>, <<NoticeV1>> >> }

\* what bill_items returns
BillAnswers == { <<BillV1>>, <<BillV2>> }

\* the answers of one run: one service answers, or none, or all three
Upstream ==
    {[laws |-> l, admruls |-> NoAdmruls, bills |-> <<>>] : l \in LawAnswers \cup {NoLaws}}
    \cup {[laws |-> NoLaws, admruls |-> a, bills |-> <<>>] : a \in AdmrulAnswers}
    \cup {[laws |-> NoLaws, admruls |-> NoAdmruls, bills |-> b] : b \in BillAnswers}
    \cup {[laws |-> << <<>>, <<LawV2>> >>, admruls |-> << <<NoticeV2>>, <<>> >>,
           bills |-> <<BillV2>>]}

\* what seed_history_items returns when the run seeds
SeedAnswers(t) ==
    { <<>>, <<collect_law_backfill_item(LAW_NAME_2, LawV2, now_utc_iso_ms(t))>> }

\* an entry of a changelog published before history.json existed
LegacyEntry == [status |-> "MOD", kind |-> KIND_LAW, title |-> LAW_NAME_1,
                date |-> Dec(20230310), id |-> Dec(77),
                detected_at_utc |-> IsoText(2023, 3, 10, 0, 0, <<90>>)]

Changelogs ==
    { MissingFile,
      [form |-> "list", items |-> <<LegacyEntry>>],
      [form |-> "object", items |-> <<LegacyEntry>>] }

\* values of the environment variable CHANGELOG_START_DATE
StartDates == { Dec(20210101), <<50, 48, 50, 50, 45, 48, 49, 45, 48, 49>> }   \* "2022-01-01"

\* the merge harness is not in use
MergeIdle ==
    /\ mpc = "idle"
    /\ existing_items = <<>>
    /\ incoming_items = <<>>
    /\ cutoff_arg = <<>>
    /\ out1 = <<>>
    /\ out2 = <<>>
    /\ outRev = <<>>
    /\ outLater = <<>>

\* a fresh checkout: no state.json, no history.json, maybe a published changelog
Init ==
    /\ clock = 0
    /\ MergeIdle
    /\ CHANGELOG_START_DATE \in StartDates
    /\ state_file = MissingFile
    /\ history_file = MissingFile
    /\ changelog_file \in Changelogs
    /\ updates_json = MissingFile
    /\ events = <<>>
    /\ state_before = load_state(MissingFile)
    /\ ledger_before = <<>>
    /\ run_cutoff = <<>>
    /\ seeded_before = <<>>
    /\ StepsIdle
    /\ DateIdle

\* lines 996-1032: save_history, the published files, save_state
Commit(r) ==
    /\ history_file' = r.history
    /\ updates_json' = r.updates
    /\ changelog_file' = r.changes
    /\ state_file' = r.state
    /\ events' = r.events

\* at most this many runs of run_web
MaxRuns == 3

\* one completed run of run_web
RunWeb ==
    /\ clock < MaxRuns
    /\ \E upstream \in Upstream :
          \E seed_items \in
                (IF needs_seed(load_history(history_file, changelog_file),
                               history_start_yyyymmdd(CHANGELOG_START_DATE))
                 THEN SeedAnswers(clock) ELSE { <<>> }) :
             Commit(run_web(state_file, history_file, changelog_file, CHANGELOG_START_DATE,
                            upstream, seed_items, clock))
    /\ state_before' = load_state(state_file)
    /\ ledger_before' = load_history(history_file, changelog_file).items
    /\ run_cutoff' = history_start_yyyymmdd(CHANGELOG_START_DATE)
    /\ seeded_before' = normalize_date(load_history(history_file, changelog_file).seeded_from)
    /\ clock' = clock + 1
    /\ UNCHANGED <<CHANGELOG_START_DATE, mvars, svars, dvars>>

\* the operator sets another start date for the ledger
SetStartDate ==
    /\ \E d \in StartDates : d # CHANGELOG_START_DATE /\ CHANGELOG_START_DATE' = d
    /\ UNCHANGED <<clock, mvars, state_file, history_file, changelog_file, updates_json,
                   events, state_before, ledger_before, run_cutoff, seeded_before,
                   svars, dvars>>

Next == RunWeb \/ SetStartDate

Spec == Init /\ [][Next]_vars

---------------------------------------------------------------------------
(* Properties of run_web *)

\* the key under which the ledger holds the entry
LedgerKey(e) == merge_key(e)

\* the ledger as persisted in history.json
PersistedLedger == Get(history_file, "items", <<>>)

\* C7: no prior ledger entry is lost: every entry of the ledger a run loaded
\* (from history.json or from a published changelog) whose date is not earlier
\* than the cutoff has an entry of the same history_key in the ledger the run
\* persisted.
C7_NoEntryLost ==
    \A i \in 1..Len(ledger_before) :
        (IsDict(ledger_before[i]) /\ EntryDateNum(ledger_before[i]) >= safe_int_yyyymmdd(run_cutoff))
            => \E j \in 1..Len(PersistedLedger) :
                  LedgerKey(PersistedLedger[j]) = LedgerKey(ledger_before[i])

\* the StateRecord the run found for the key of its i-th event: the record it
\* loaded, or the one it wrote earlier in the same run
PriorRecord(i) ==
    IF \E j \in 1..(i - 1) : events[j].kind = events[i].kind /\ events[j].key = events[i].key
    THEN events[i].prev
    ELSE OptGet(state_before[events[i].kind], events[i].key)

ExpectedStatus(prev, current_key) ==
    IF prev = <<>> THEN "NEW"
    ELSE IF Get(prev[1], "status_key", <<>>) # current_key THEN "MOD"
    ELSE "OK"

\* C8: for statutes, notices and bills alike a record is NEW when there is no
\* prior StateRecord for its identity key, MOD when the prior fingerprint
\* differs from the current one, and OK otherwise.
C8_StatusRule ==
    \A i \in 1..Len(events) :
        /\ events[i].prev = PriorRecord(i)
        /\ events[i].status = ExpectedStatus(events[i].prev, events[i].current_key)

\* C8: the prior fingerprint "20210101|123|<amendment>" and the current one
\* "20220505|124|<amendment>" give MOD.
C8_Witness ==
    \E i \in 1..Len(events) :
        /\ events[i].prev # <<>>
        /\ events[i].prev[1]["status_key"] = Join(BAR, <<Dec(20210101), Dec(123), REFORM_AMEND>>)
        /\ events[i].current_key = Join(BAR, <<Dec(20220505), Dec(124), REFORM_AMEND>>)
        /\ events[i].status = "MOD"

\* the fingerprint persisted for the key when the run started
PersistedKey(kind, key) ==
    IF DictHas(state_before[kind], key)
    THEN <<Get(DictGet(state_before[kind], key), "status_key", <<>>)>>
    ELSE <<>>

\* C9: a fetched record whose fingerprint equals the fingerprint persisted for
\* its identity key at the end of the last run is never classified NEW or MOD.
C9_Monotone ==
    \A i \in 1..Len(events) :
        PersistedKey(events[i].kind, events[i].key) = <<events[i].current_key>>
            => events[i].status = "OK"

\* the i-th event is the last one of the run for its key
LastForKey(i) ==
    \A j \in (i + 1)..Len(events) :
        ~(events[j].kind = events[i].kind /\ events[j].key = events[i].key)

\* the record holds the fingerprint and every field of the payload
HoldsRecord(record, current_key, info) ==
    /\ record # <<>>
    /\ Get(record[1], "status_key", <<>>) = current_key
    /\ \A f \in DOMAIN info : f \in DOMAIN record[1] /\ record[1][f] = info[f]

\* C10: whatever its status, the state a completed run persists holds for each
\* key fetched the fingerprint and the payload of the last record processed
\* for that key.
C10_StateWritten ==
    \A i \in 1..Len(events) :
        LastForKey(i)
            => HoldsRecord(OptGet(load_state(state_file)[events[i].kind], events[i].key),
                           events[i].current_key, events[i].info)

\* C10: a record classified OK whose payload differs from the persisted one
\* is written.
C10_Witness ==
    \E i \in 1..Len(events) :
        /\ events[i].status = "OK"
        /\ events[i].kind = "laws"
        /\ DictHas(state_before.laws, events[i].key)
        /\ DictGet(state_before.laws, events[i].key)["law_id"] # events[i].info["law_id"]
        /\ DictGet(load_state(state_file).laws, events[i].key)["law_id"] = events[i].info["law_id"]

---------------------------------------------------------------------------
(* A run of run_web step by step: the process may die between any two writes *)

\* a file whose text is not JSON: cut short by an interrupted write, or damaged
BrokenFile == [form |-> "unparseable"]

\* lines 197-199: data.setdefault is called on whatever json.loads returned;
\* a JSON value that is not an object (form "list") has no setdefault
load_state_raises(file) == file.form = "list"

\* the kinds whose value in the state object is a non-empty JSON array
\* (setdefault at lines 197-199 leaves a value that is present as it is)
nonmapping_kinds(file) == IF file.form = "object" THEN Get(file, "nonmapping", {}) ELSE {}

\* lines 892 and 911-912 with 815: state["laws"].get(key) when a statute is
\* fetched, or else state_laws.items() in the fallback, on a value that is a list
run_raises(file) == load_state_raises(file) \/ "laws" \in nonmapping_kinds(file)

\* the write went to the live file
save_state_write_in_place(state_f, tmp_f, text) == [state |-> text, tmp |-> tmp_f]

\* lines 205-206: tmp = STATE_PATH.with_suffix(".tmp"); tmp.write_text(...)
save_state_write(state_f, tmp_f, text) == [state |-> state_f, tmp |-> text]

\* line 207: tmp.replace(STATE_PATH)
save_state_replace(state_f, tmp_f) == [state |-> tmp_f, tmp |-> MissingFile]

\* a state.json of an earlier run that found LawV1 and BillV1
StateWithRecords ==
    [form |-> "object",
     laws |-> <<[k |-> LAW_NAME_2, v |-> SetField(LawV1, "status_key", law_current_key(LawV1))]>>,
     admruls |-> <<>>,
     bills |-> <<[k |-> BillV1.bill_id, v |-> SetField(BillV1, "status_key", bill_current_key(BillV1))]>>,
     last_run |-> now_kst_iso_ms(0)]

\* state.json when the process starts: absent, damaged, a JSON array, an object
\* whose "laws" is a JSON array, or the state of an earlier run
StepStateFiles ==
    { MissingFile, BrokenFile, [form |-> "list"],
      [form |-> "object", nonmapping |-> {"laws"}, admruls |-> <<>>, bills |-> <<>>],
      StateWithRecords }

\* the answers of the services in a stepwise run
StepUpstream ==
    { [laws |-> NoLaws, admruls |-> NoAdmruls, bills |-> <<>>],
      [laws |-> << <<>>, <<LawV2>> >>, admruls |-> NoAdmruls, bills |-> <<>>],
      [laws |-> << <<>>, <<LawV2>> >>, admruls |-> << <<NoticeV2>>, <<>> >>, bills |-> <<BillV2>>] }

StepInit ==
    /\ clock = 0
    /\ MergeIdle
    /\ DateIdle
    /\ StepsIdle
    /\ CHANGELOG_START_DATE = Dec(20210101)
    /\ state_file \in StepStateFiles
    /\ history_file = MissingFile
    /\ changelog_file = MissingFile
    /\ updates_json = MissingFile
    /\ events = <<>>
    /\ state_before = load_state(MissingFile)
    /\ ledger_before = <<>>
    /\ run_cutoff = <<>>
    /\ seeded_before = <<>>

\* what the process remembers of the files it read when it started
StepRemember ==
    /\ state_before' = load_state(state_file)
    /\ ledger_before' = load_history(history_file, changelog_file).items
    /\ run_cutoff' = history_start_yyyymmdd(CHANGELOG_START_DATE)
    /\ seeded_before' = normalize_date(load_history(history_file, changelog_file).seeded_from)

\* lines 876-995 on a state that cannot be used: the exception ends the process
StepRaise ==
    /\ pc = "idle" /\ clock < MaxClock
    /\ run_raises(state_file)
    /\ StepRemember
    /\ outcome' = "raised"
    /\ clock' = clock + 1
    /\ UNCHANGED <<pc, run_mem, state_tmp, CHANGELOG_START_DATE, state_file, history_file,
                   changelog_file, updates_json, events, mvars, dvars>>

\* lines 876-995: everything up to the first write
StepCompute ==
    /\ pc = "idle" /\ clock < MaxClock
    /\ ~run_raises(state_file)
    /\ \E upstream \in StepUpstream :
          run_mem' = run_web(state_file, history_file, changelog_file, CHANGELOG_START_DATE,
                             upstream, <<>>, clock)
    /\ StepRemember
    /\ pc' = "computed"
    /\ outcome' = "running"
    /\ UNCHANGED <<clock, state_tmp, CHANGELOG_START_DATE, state_file, history_file,
                   changelog_file, updates_json, events, mvars, dvars>>

StepFrame ==
    UNCHANGED <<clock, run_mem, outcome, CHANGELOG_START_DATE, events, state_before,
                ledger_before, run_cutoff, seeded_before, mvars, dvars>>

\* line 239, write_text: history.json is opened for writing, which empties it
StepHistoryOpen ==
    /\ pc = "computed"
    /\ history_file' = BrokenFile
    /\ pc' = "history_open"
    /\ StepFrame
    /\ UNCHANGED <<state_file, state_tmp, changelog_file, updates_json>>

\* line 239: the text of the ledger is in history.json
StepHistoryWritten ==
    /\ pc = "history_open"
    /\ history_file' = run_mem.history
    /\ pc' = "history_saved"
    /\ StepFrame
    /\ UNCHANGED <<state_file, state_tmp, changelog_file, updates_json>>

\* lines 1026-1029: the published files
StepPublish ==
    /\ pc = "history_saved"
    /\ updates_json' = run_mem.updates
    /\ changelog_file' = run_mem.changes
    /\ pc' = "published"
    /\ StepFrame
    /\ UNCHANGED <<state_file, state_tmp, history_file>>

\* line 206: the temporary file is opened for writing
StepTmpOpen ==
    /\ pc = "published"
    /\ state_file' = save_state_write(state_file, state_tmp, BrokenFile).state
    /\ state_tmp' = save_state_write(state_file, state_tmp, BrokenFile).tmp
    /\ pc' = "tmp_open"
    /\ StepFrame
    /\ UNCHANGED <<history_file, changelog_file, updates_json>>

\* line 206: the text of the state is in the temporary file
StepTmpWritten ==
    /\ pc = "tmp_open"
    /\ state_file' = save_state_write(state_file, state_tmp, run_mem.state).state
    /\ state_tmp' = save_state_write(state_file, state_tmp, run_mem.state).tmp
    /\ pc' = "tmp_written"
    /\ StepFrame
    /\ UNCHANGED <<history_file, changelog_file, updates_json>>

\* line 207: the replace; run_web returns
StepReplace ==
    /\ pc = "tmp_written"
    /\ state_file' = save_state_replace(state_file, state_tmp).state
    /\ state_tmp' = save_state_replace(state_file, state_tmp).tmp
    /\ events' = run_mem.events
    /\ run_mem' = <<>>
    /\ pc' = "idle"
    /\ outcome' = "completed"
    /\ clock' = clock + 1
    /\ UNCHANGED <<CHANGELOG_START_DATE, history_file, changelog_file, updates_json,
                   state_before, ledger_before, run_cutoff, seeded_before, mvars, dvars>>

\* the process is killed; the files stay as they are
Crash ==
    /\ pc # "idle"
    /\ pc' = "idle"
    /\ run_mem' = <<>>
    /\ outcome' = "crashed"
    /\ clock' = clock + 1
    /\ UNCHANGED <<CHANGELOG_START_DATE, state_file, state_tmp, history_file, changelog_file,
                   updates_json, events, state_before, ledger_before, run_cutoff,
                   seeded_before, mvars, dvars>>

StepNext ==
    \/ StepRaise \/ StepCompute \/ StepHistoryOpen \/ StepHistoryWritten \/ StepPublish
    \/ StepTmpOpen \/ StepTmpWritten \/ StepReplace \/ Crash

SpecSteps == StepInit /\ [][StepNext]_vars

\* the process died, at whatever point
Interrupted == pc = "idle" /\ outcome = "crashed"

\* C11: if save_state is interrupted at any point before the replace of the
\* temporary file onto state.json completes, a following load_state returns
\* the state that was saved before, never a partial write.
C11_CrashSafeState ==
    (pc \in {"published", "tmp_open", "tmp_written"} \/ Interrupted)
        => /\ load_state(state_file) = state_before
           /\ state_file.form = "unparseable" => state_before = load_state(MissingFile)

\* C11: the process died with the whole new state in the temporary file; the
\* new state differs from the old one, and load_state returns the old one.
C11_Witness ==
    /\ Interrupted
    /\ state_tmp.form = "object"
    /\ state_before.laws # <<>>
    /\ load_state(state_tmp).laws # state_before.laws
    /\ load_state(state_file) = state_before

\* C12: a run is all-or-nothing for the durable data: a run that fails leaves
\* the persisted ledger and the persisted state as they were before the run;
\* no interruption leaves an updated or partly written ledger with the old
\* state.
C12_AllOrNothing ==
    Interrupted
        => /\ history_file.form # "unparseable"
           /\ load_history(history_file, changelog_file).items = ledger_before
           /\ load_state(state_file) = state_before

\* C13: a state.json that is missing or is not a usable state mapping
\* (unparseable text, JSON that is not an object, a per-kind value that is not
\* a mapping) is never fatal: the run proceeds from the empty structure
\* instead of raising.
C13_CorruptionNotFatal == outcome # "raised"

\* the snapshot's label of a kind of the state, and the title of a StateRecord
KindLabel(kind) ==
    CASE kind = "laws" -> KIND_LAW [] kind = "admruls" -> KIND_ADMRUL [] OTHER -> KIND_BILL

RecordTitle(kind, key, record) ==
    CASE kind = "laws"    -> StrOr(Get(record, "law_name", <<>>), key)
      [] kind = "admruls" -> Get(record, "title", <<>>)
      [] OTHER            -> Get(record, "bill_name", <<>>)

\* the last run fetched no record of the kind although the state held some
Outage(kind) ==
    /\ state_before[kind] # <<>>
    /\ \A i \in 1..Len(events) : events[i].kind # kind

\* the snapshot re-emits every StateRecord of the kind as UNCHANGED and flags it
FallbackServed(kind) ==
    /\ Get(updates_json.fallback, kind, FALSE)
    /\ \A i \in 1..Len(state_before[kind]) :
          \E j \in 1..Len(updates_json.items) :
              /\ updates_json.items[j].kind = KindLabel(kind)
              /\ updates_json.items[j].status = "OK"
              /\ updates_json.items[j].title =
                     RecordTitle(kind, state_before[kind][i].k, state_before[kind][i].v)

\* C14: for every kind (statute, notice, bill), if the live fetch of the kind
\* yields no record in a run while the persisted state holds a StateRecord of
\* the kind, the published snapshot holds the known entries of the kind with
\* status UNCHANGED and the fallback flag of the kind is true.
C14_Fallback == \A kind \in {"laws", "admruls", "bills"} : Outage(kind) => FallbackServed(kind)

\* Fallback mode for the statutes and the notices.
FallbackOfLawsAndNotices == \A kind \in {"laws", "admruls"} : Outage(kind) => FallbackServed(kind)

\* a run was completed
RunDone == run_cutoff # <<>> /\ changelog_file.form = "object" /\ "seeded_now" \in DOMAIN changelog_file

\* the last run performed the seeding merge
SeededNow == changelog_file.seeded_now

\* C15: run_web performs the seeding merge in a run if and only if the
\* seeded_from stored in the ledger is absent or chronologically later than
\* the configured cutoff; after the run seeded_from equals the cutoff.
C15_SeedsWhenNeeded ==
    RunDone =>
        /\ SeededNow <=> (seeded_before = <<>>
                            \/ safe_int_yyyymmdd(seeded_before) > safe_int_yyyymmdd(run_cutoff))
        /\ SeededNow => history_file.seeded_from = run_cutoff

\* The seeding merge as the code decides it: the loaded ledger has no item, or
\* its seeded_from is absent or earlier than the cutoff.
SeedsAsCoded ==
    RunDone =>
        /\ SeededNow <=> (ledger_before = <<>>
                            \/ safe_int_yyyymmdd(seeded_before) < safe_int_yyyymmdd(run_cutoff))
        /\ SeededNow => history_file.seeded_from = run_cutoff

---------------------------------------------------------------------------
(* The date harness: normalize_date applied to bounded texts *)

\* a text handed to normalize_date is made of at most this many pieces
MaxPieces == 3

\* "2021", "20", "1", "05", "-", "T00:00"
DatePieces ==
    { <<50, 48, 50, 49>>, <<50, 48>>, <<49>>, <<48, 53>>, <<45>>,
      <<84, 48, 48, 58, 48, 48>> }

DateTexts == {Flatten(ps) : ps \in SeqsUpTo(DatePieces, MaxPieces)}

DateInit ==
    /\ clock = 0
    /\ MergeIdle
    /\ WebIdle
    /\ dpc = "start"
    /\ date_arg \in DateTexts
    /\ date_out = <<>>

\* normalize_date(text)
CallNormalizeDate ==
    /\ dpc = "start"
    /\ date_out' = normalize_date(date_arg)
    /\ dpc' = "done"
    /\ UNCHANGED <<clock, date_arg, mvars, CHANGELOG_START_DATE, state_file, history_file,
                   changelog_file, updates_json, events, state_before, ledger_before,
                   run_cutoff, seeded_before, svars>>

DateNext == CallNormalizeDate

SpecDate == DateInit /\ [][DateNext]_vars

\* C17: normalize_date returns the empty text when its argument has no digit,
\* and a text of exactly 8 digits otherwise, so that a date of fewer than 8
\* digits is never compared with the cutoff as a short number.
C17_EightDigitsOrEmpty ==
    dpc = "done" =>
        /\ \A i \in 1..Len(date_out) : IsDigit(date_out[i])
        /\ date_out = <<>> <=> (\A i \in 1..Len(date_arg) : ~IsDigit(date_arg[i]))
        /\ date_out # <<>> => Len(date_out) = 8

\* What normalize_date returns: the digits of its argument, in order, cut
\* after the eighth.
DigitsCutAtEight ==
    dpc = "done" =>
        /\ date_out = SubSeq(SelectSeq(date_arg, IsDigit), 1,
                             MinOf({8, Len(SelectSeq(date_arg, IsDigit))}))
        /\ Len(date_out) <= 8

---------------------------------------------------------------------------
(* Further properties of run_web *)

\* the value is unset: the key is absent, or the text is empty
Unset(record, field) == Get(record, field, <<>>) = <<>>

\* the StateRecord the run loaded for the statute, notice or bill of the item
\* holds a text body
PriorBody(item) ==
    \E kind \in {"laws", "admruls", "bills"} :
        \E i \in 1..Len(state_before[kind]) :
            /\ KindLabel(kind) = item.kind
            /\ RecordTitle(kind, state_before[kind][i].k, state_before[kind][i].v) = item.title
            /\ ~Unset(state_before[kind][i].v, "body")

\* C18: a change entry carries a diff reference only when its status is
\* MODIFIED and the prior StateRecord holds a text body: the diff_url of every
\* other item of the snapshot, and of every ledger entry derived from it, is
\* unset.
C18_DiffOnlyWithPriorBody ==
    /\ updates_json.form = "object" =>
          \A i \in 1..Len(updates_json.items) :
              ~(updates_json.items[i].status = "MOD" /\ PriorBody(updates_json.items[i]))
                  => Unset(updates_json.items[i], "diff_url")
    /\ \A i \in 1..Len(PersistedLedger) :
          PersistedLedger[i].source = "delta" /\ PersistedLedger[i].status = "NEW"
              => Unset(PersistedLedger[i], "diff_url")

\* The diff reference as the code sets it: every item of the snapshot, whatever
\* its status, carries a link to the page of the record.
EveryItemLinked ==
    updates_json.form = "object" =>
        \A i \in 1..Len(updates_json.items) : ~Unset(updates_json.items[i], "diff_url")

\* every record the last run fetched was classified UNCHANGED
NothingChanged == \A i \in 1..Len(events) : events[i].status = "OK"

\* the ledger entry was in the ledger the run loaded
WasInLedger(entry) == \E i \in 1..Len(ledger_before) : ledger_before[i] = entry

\* the entry is not dropped by the cutoff of the last run (lines 278-280)
KeptByCutoff(entry) ==
    IF EntryDateNum(entry) # 0
    THEN EntryDateNum(entry) >= safe_int_yyyymmdd(run_cutoff)
    ELSE EntryStampNum(entry) = 0 \/ EntryStampNum(entry) >= safe_int_yyyymmdd(run_cutoff)

\* an entry the run added or replaced never has the status UNCHANGED
OnlyChangesAdded ==
    \A i \in 1..Len(PersistedLedger) :
        WasInLedger(PersistedLedger[i]) \/ PersistedLedger[i].status \in {"NEW", "MOD"}

\* C19 as stated: only records classified NEW or MODIFIED are folded into the
\* ledger, so a run that does not seed and in which no fetched record changed
\* leaves the item list of the persisted ledger identical.
C19_LedgerIdentical ==
    RunDone =>
        /\ OnlyChangesAdded
        /\ (~SeededNow /\ NothingChanged) => PersistedLedger = ledger_before

\* C19: only records classified NEW or MODIFIED are folded into the ledger: a
\* run that does not seed and in which no fetched record changed persists the
\* item list it loaded, less the entries dated before the cutoff of the run.
C19_OnlyChangesFolded ==
    RunDone =>
        /\ OnlyChangesAdded
        /\ (~SeededNow /\ NothingChanged)
              => PersistedLedger = SelectSeq(ledger_before, KeptByCutoff)

\* C19: a run right after a completed run, on the same upstream data: the
\* records are fetched again, all UNCHANGED, and the ledger stays as it was.
C19_Witness ==
    /\ RunDone /\ ~SeededNow
    /\ events # <<>> /\ NothingChanged
    /\ ledger_before # <<>>
    /\ PersistedLedger = ledger_before

\* the last run fetched a record under this key
Fetched(kind, key) == \E i \in 1..Len(events) : events[i].kind = kind /\ events[i].key = key

\* C20: StateRecords are never deleted and untouched keys are left unchanged:
\* every identity key of the state a run loaded is in the state it persisted,
\* and the StateRecord of every key the run did not fetch (the keys of a kind
\* served from fallback included) is identical before and after the run.
C20_StateOnlyGrows ==
    RunDone =>
        \A kind \in {"laws", "admruls", "bills"} :
            \A i \in 1..Len(state_before[kind]) :
                /\ DictHas(load_state(state_file)[kind], state_before[kind][i].k)
                /\ ~Fetched(kind, state_before[kind][i].k)
                      => DictGet(load_state(state_file)[kind], state_before[kind][i].k)
                             = state_before[kind][i].v

\* C20: a run serves the statutes from fallback and fetches a bill: the
\* statute records stay as they were and the state gets the bill's record.
C20_Witness ==
    /\ RunDone
    /\ updates_json.fallback.laws
    /\ state_before.laws # <<>>
    /\ load_state(state_file).laws = state_before.laws
    /\ state_before.bills = <<>>
    /\ load_state(state_file).bills # <<>>

=============================================================================
